---- MODULE Spec2Model ----
(***************************************************************************)
(* Model of QuantumAssignment.ipynb: a reduced Mastermind played on bit    *)
(* strings.  A code setter (codemaker / HumanSetter / QuantumSetter)       *)
(* stores a secret, QuantumEncoder turns it into a circuit of controlled   *)
(* NOTs and answers check(guess), QuantumGuesser runs the Bernstein-       *)
(* Vazirani circuit on the qasm simulator, HumanGuesser reads a guess from *)
(* the keyboard, and Game.play drives the attempts.                        *)
(*                                                                         *)
(* Python strings are sequences of one-character strings.  A Qiskit        *)
(* circuit is a record [num_qubits, num_clbits, data], data being the list *)
(* of gates <<name, qubits...>>.  The simulator keeps a state vector over  *)
(* the 2^n basis states, as a sequence indexed by k+1 for basis state k    *)
(* (qubit q is bit q of k); amplitudes are kept as integers, each h gate   *)
(* leaving out its factor 1/sqrt(2), which changes no outcome's being      *)
(* possible or impossible.                                                 *)
(***************************************************************************)
EXTENDS Integers, Sequences, FiniteSets

\* ---------------------------------------------------------------- bounds
\* lengths typed at 'how long of a string?' are 0..MaxLen
MaxLen == 2
\* secrets handed to encode directly have 0..MaxCodeLen characters
MaxCodeLen == 4
\* secrets recovered by the solver alone have 1..MaxSecretLen bits
MaxSecretLen == 6
\* shots given to QuantumGuesser / QuantumSetter are at most MaxShots
MaxShots == 2
\* Game.play is followed for at most MaxAttempts attempts
MaxAttempts == 3

\* ------------------------------------------------------- Python strings
BitStrings(n) == [1..n -> {"0", "1"}]

BitStringsUpTo(n) == UNION {BitStrings(m) : m \in 0..n}

IsBitString(s) == \A i \in 1..Len(s) : s[i] \in {"0", "1"}

\* reversed(code)
Reversed(s) == [i \in 1..Len(s) |-> s[Len(s) + 1 - i]]

\* ------------------------------------------------------------ codemaker
\* codemaker.setCode(code): self.code = '' and then, for each i in
\* range(len(code)), self.code = self.code + code[i].  code is a string or,
\* from HumanSetter, the list of the strings typed.
RECURSIVE ConcatFrom(_, _, _)
ConcatFrom(code, i, acc) ==
    IF i > Len(code) THEN acc
    ELSE ConcatFrom(code, i + 1, acc \o code[i])

codemaker_setCode(code) == ConcatFrom(code, 1, <<>>)

\* ------------------------------------------------------ Qiskit circuits
QuantumCircuit(nq, ncl) == [num_qubits |-> nq, num_clbits |-> ncl, data |-> <<>>]

AddGate(qc, g) == [qc EXCEPT !.data = Append(@, g)]

\* qc.h(range(n)): one h per qubit 0..n-1
h_range(qc, n) == [qc EXCEPT !.data = @ \o [i \in 1..n |-> <<"h", i - 1>>]]

\* qc.measure(range(n), range(n)): qubit i into classical bit i
measure_range(qc, n) ==
    [qc EXCEPT !.data = @ \o [i \in 1..n |-> <<"measure", i - 1, i - 1>>]]

\* qc.compose(other)
compose(qc, other) == [qc EXCEPT !.data = @ \o other.data]

\* -------------------------------------------------------- the simulator
Pow2(n) == 2 ^ n

Bit(k, q) == (k \div Pow2(q)) % 2

Flip(k, q) == IF Bit(k, q) = 0 THEN k + Pow2(q) ELSE k - Pow2(q)

\* the sequence <<f[0], ..., f[n-1]>> of a function f on 0..n-1
RECURSIVE Tabulate(_, _)
Tabulate(f, acc) ==
    IF Len(acc) = Cardinality(DOMAIN f) THEN acc
    ELSE Tabulate(f, Append(acc, f[Len(acc)]))

\* the state vector of basis state k on n qubits
Basis(n, k) ==
    Tabulate([j \in 0..(Pow2(n) - 1) |-> IF j = k THEN 1 ELSE 0], <<>>)

ApplyX(psi, q) ==
    Tabulate([k \in 0..(Len(psi) - 1) |-> psi[Flip(k, q) + 1]], <<>>)

ApplyH(psi, q) ==
    Tabulate([k \in 0..(Len(psi) - 1) |->
                 IF Bit(k, q) = 0
                 THEN psi[k + 1] + psi[Flip(k, q) + 1]
                 ELSE psi[Flip(k, q) + 1] - psi[k + 1]], <<>>)

\* cx(c, t): the target is flipped in the basis states whose control is 1
ApplyCX(psi, c, t) ==
    Tabulate([k \in 0..(Len(psi) - 1) |->
                 IF Bit(k, c) = 1 THEN psi[Flip(k, t) + 1] ELSE psi[k + 1]], <<>>)

\* barrier and measure leave the state vector alone (every measure of
\* these circuits comes last and is sampled from the final state)
ApplyGate(psi, g) ==
    CASE g[1] = "x" -> ApplyX(psi, g[2])
      [] g[1] = "h" -> ApplyH(psi, g[2])
      [] g[1] = "cx" -> ApplyCX(psi, g[2], g[3])
      [] OTHER -> psi

\* the gates applied in order; each intermediate state vector is bound once
RECURSIVE Run(_, _)
Run(gates, psi) ==
    IF gates = <<>> THEN psi
    ELSE CHOOSE r \in {Run(Tail(gates), p) : p \in {ApplyGate(psi, Head(gates))}} : TRUE

\* the classical register read off basis state k: measure(q, c) copies bit
\* q of k into classical bit c
Creg(qc, k) ==
    LET ms == {i \in 1..Len(qc.data) : qc.data[i][1] = "measure"}
        cbits == {qc.data[i][3] : i \in ms}
        RECURSIVE Sum(_)
        Sum(S) == IF S = {} THEN 0
                  ELSE LET c == CHOOSE c \in S : TRUE
                           q == (CHOOSE i \in ms : qc.data[i][3] = c)
                       IN  Bit(k, qc.data[q][2]) * Pow2(c) + Sum(S \ {c})
    IN  Sum(cbits)

\* the register values one shot can yield: those of the basis states with
\* a nonzero amplitude in the final state
Outcomes(qc) ==
    UNION {{Creg(qc, k) : k \in {j \in 0..(Len(psi) - 1) : psi[j + 1] # 0}} :
           psi \in {Run(qc.data, Basis(qc.num_qubits, 0))}}

\* a key of get_counts(): classical bit ncl-1 first, classical bit 0 last
FormatKey(o, ncl) == [j \in 1..ncl |-> IF Bit(o, ncl - j) = 1 THEN "1" ELSE "0"]

\* the register value a key stands for: character j is classical bit ncl-j
RECURSIVE ParseKey(_)
ParseKey(key) ==
    IF key = <<>> THEN 0
    ELSE (IF Head(key) = "1" THEN Pow2(Len(key) - 1) ELSE 0) + ParseKey(Tail(key))

Ok(v) == [ok |-> TRUE, val |-> v]

Raise(e) == [ok |-> FALSE, val |-> e]

\* Counts.most_frequent() of the register values of the shots: the one
\* value counted most often; an error on no counts or on a tie
most_frequent(samples, ncl) ==
    LET keys == {samples[i] : i \in DOMAIN samples}
        count(o) == Cardinality({i \in DOMAIN samples : samples[i] = o})
        best == {o \in keys : \A p \in keys : count(p) <= count(o)}
    IN  IF Cardinality(best) = 1
        THEN Ok(FormatKey(CHOOSE o \in best : TRUE, ncl))
        ELSE Raise("QiskitError")

\* execute(qc, backend, shots).result().get_counts().most_frequent() on the
\* noiseless qasm_simulator: every value it can return.  Each shot samples
\* one possible register value.  What the library does with a circuit that
\* has no classical bit is not decided by this program: both an empty key
\* and an error are allowed.
execute(qc, shots) ==
    LET outs == Outcomes(qc)
        runs == {most_frequent(s, qc.num_clbits) : s \in [1..shots -> outs]}
    IN  IF qc.num_clbits = 0 THEN runs \cup {Raise("QiskitError")} ELSE runs

\* ------------------------------------------------------- QuantumEncoder
\* (EncodeTarget with a fault) each controlled NOT targets the next qubit
EncodeTarget_Next(code, i) == i + 1

\* the index a controlled NOT of encode targets
EncodeTarget(code, i) == Len(code)

\* QuantumEncoder.encode(code): the circuit on len(code)+1 qubits with a
\* cx(i, len(code)) for every i whose character of reversed(code) is '1'
RECURSIVE EncodeFrom(_, _, _)
EncodeFrom(code, i, qc) ==
    IF i >= Len(code) THEN qc
    ELSE EncodeFrom(code, i + 1,
                    IF Reversed(code)[i + 1] = "1"
                    THEN AddGate(qc, <<"cx", i, EncodeTarget(code, i)>>)
                    ELSE qc)

\* (encode with a fault) the characters are taken in the order of code, not
\* of reversed(code)
encode_NotReversed(code) ==
    LET RECURSIVE From(_, _)
        From(i, qc) ==
            IF i >= Len(code) THEN qc
            ELSE From(i + 1, IF code[i + 1] = "1"
                             THEN AddGate(qc, <<"cx", i, Len(code)>>)
                             ELSE qc)
    IN  From(0, QuantumCircuit(Len(code) + 1, Len(code)))

\* (encode with a fault) a controlled NOT is added for the characters that
\* are not '1'
encode_OnOthers(code) ==
    LET RECURSIVE From(_, _)
        From(i, qc) ==
            IF i >= Len(code) THEN qc
            ELSE From(i + 1, IF Reversed(code)[i + 1] # "1"
                             THEN AddGate(qc, <<"cx", i, Len(code)>>)
                             ELSE qc)
    IN  From(0, QuantumCircuit(Len(code) + 1, Len(code)))

encode(code) == EncodeFrom(code, 0, QuantumCircuit(Len(code) + 1, Len(code)))

\* (Matched with a fault) the guess is compared with the code read backwards
Matched_Reversed(code, input) == Reversed(code) = input

\* self.code == input
Matched(code, input) == code = input

\* QuantumEncoder.check(input).  odd starts False; for each position i of
\* self.code whose character is '1', input[i] is read (an IndexError when
\* input is too short) and, if it is '1' too, "odd = !odd" runs: in the
\* notebook this is IPython's shell assignment, which runs the system
\* command "odd" and stores the lines it printed.  sh is the truth value of
\* that list (whether the command printed anything); the hint is kept as
\* the truth value of odd, which is all the callers read.
RECURSIVE CheckFrom(_, _, _, _, _)
CheckFrom(code, input, sh, i, odd) ==
    IF i > Len(code) THEN Ok([hint |-> odd, matched |-> Matched(code, input)])
    ELSE IF code[i] # "1" THEN CheckFrom(code, input, sh, i + 1, odd)
    ELSE IF i > Len(input) THEN Raise("IndexError")
    ELSE CheckFrom(code, input, sh, i + 1, IF input[i] = "1" THEN sh ELSE odd)

\* (check with a fault) a guess of another length is refused
check_LengthChecked(code, input, sh) ==
    IF Len(input) # Len(code) THEN Raise("LengthMismatchError")
    ELSE CheckFrom(code, input, sh, 1, FALSE)

check(code, input, sh) == CheckFrom(code, input, sh, 1, FALSE)

\* ------------------------------------------------------- QuantumGuesser
\* the circuit QuantumGuesser.guess builds around the encoder's circuit
GuessCircuit(code) ==
    LET q0 == QuantumCircuit(code.num_qubits, code.num_clbits)
        q1 == AddGate(q0, <<"x", code.num_qubits - 1>>)
        q2 == AddGate(h_range(q1, code.num_qubits), <<"barrier">>)
        q3 == AddGate(compose(q2, code), <<"barrier">>)
        q4 == AddGate(h_range(q3, code.num_qubits), <<"barrier">>)
    IN  measure_range(q4, code.num_qubits - 1)

\* (QuantumGuesser_guess with a fault) a shot count below 1 is refused
QuantumGuesser_guess_ShotsChecked(code, shots) ==
    IF shots < 1 THEN [sim |-> FALSE, results |-> {Raise("InvalidProgramError")}]
    ELSE [sim |-> TRUE, results |-> execute(GuessCircuit(code), shots)]

\* QuantumGuesser(backend, shots).guess(code): sim tells whether the
\* simulator was invoked, results are the values the call can end with
QuantumGuesser_guess(code, shots) ==
    [sim |-> TRUE, results |-> execute(GuessCircuit(code), shots)]

\* ---------------------------------------------------------------- state
VARIABLES
    setterCode,  \* setterCode[s]: self.code of setter object s
    p1,          \* the notebook's global name p1: a setter object
    gameP1,      \* Game.p1: the setter given to Game(setter, guesser, encoder)
    gameP2,      \* Game.p2: the guesser, [kind, shots]
    shellOut,    \* whether the system command "odd" prints anything
    encCode,     \* QuantumEncoder.code
    fragment,    \* the circuit encode returned last
    pc,          \* where Game.play stands
    length,      \* Game.play's length, as typed
    attempts,    \* Game.play's attempts
    requested,   \* how many times Game.play has called self.p2.guess
    guess,       \* Game.play's guess
    hint,        \* Game.play's hint (its truth value)
    correct,     \* Game.play's correct
    humanGuess,  \* HumanGuesser.guess's humanGuess, once something was typed
    reported,    \* what Game.play printed as the code
    err,         \* the exception that ended Game.play
    ret          \* the last direct call on the encoder or the guesser

vars == <<setterCode, p1, gameP1, gameP2, shellOut, encCode, fragment, pc,
          length, attempts, requested, guess, hint, correct, humanGuess, reported,
          err, ret>>

gameVars == <<setterCode, p1, gameP1, gameP2, pc, length, attempts, requested, guess,
              hint, correct, humanGuess, reported, err>>

\* the setter objects: 1 is a HumanSetter, 2 a QuantumSetter(backend, 1)
SetterIds == {1, 2}

SetterKind(s) == IF s = 1 THEN "human" ELSE "quantum"

\* the guessers a Game is built with
Guessers ==
    {[kind |-> "human", shots |-> 1]}
        \cup {[kind |-> "quantum", shots |-> n] : n \in 0..MaxShots}

\* no circuit yet (encode always returns at least one qubit)
NoCircuit == QuantumCircuit(0, 0)

NoCall == [op |-> "none", arg |-> <<>>, sim |-> FALSE, res |-> Ok(<<>>)]

\* every object constructed (each self.code = ''), nothing called yet
Init ==
    /\ setterCode = [s \in SetterIds |-> <<>>]
    /\ p1 \in SetterIds
    /\ gameP1 \in SetterIds
    /\ gameP2 \in Guessers
    /\ shellOut \in BOOLEAN
    /\ encCode = <<>>
    /\ fragment = NoCircuit
    /\ pc = "AwaitingSecret"
    /\ length = 0
    /\ attempts = 0
    /\ requested = 0
    /\ guess = <<>>
    /\ hint = FALSE
    /\ correct = FALSE
    /\ humanGuess = <<>>
    /\ reported = <<"nothing">>
    /\ err = "none"
    /\ ret = NoCall

\* -------------------------------------------------------------- setters
\* what can be typed at HumanSetter's '0/1? ' prompt
TypedBits == {<<"0">>, <<"1">>, <<>>, <<"1", "0">>, <<"x">>}

\* the shots the notebook gives its QuantumSetter
SetterShots == 1

\* HumanSetter.setCode(length): the list of the length strings typed goes
\* to codemaker.setCode as it is
HumanSetter_setCode(typed) == codemaker_setCode(typed)

\* the circuit of QuantumSetter.setCode(length)
SetterCircuit(len) ==
    measure_range(h_range(QuantumCircuit(len, len), len), len)

\* every way setter s's setCode(len) can end: Ok(the new self.code) or the
\* exception raised before self.code is assigned
setCode(s, len) ==
    IF SetterKind(s) = "human"
    THEN {Ok(HumanSetter_setCode(typed)) : typed \in [1..len -> TypedBits]}
    ELSE execute(SetterCircuit(len), SetterShots)

\* ----------------------------------------------------------------- Game
\* what can be typed at HumanGuesser's 'Make a guess' prompt
GuessInputs == BitStringsUpTo(MaxLen + 1)

\* (NextAttempt with a fault) the counter is left as it is
NextAttempt_Same(a) == a

\* attempts = attempts + 1
NextAttempt(a) == a + 1

\* guess = self.p2.guess(code), up to the point where the guesser waits:
\* QuantumGuesser hands its circuit to the simulator; HumanGuesser sets
\* guessLen = 0 and prompts while guessLen != code.num_clbits, so with no
\* classical bit it returns humanGuess before anything was assigned to it
CallGuess(frag) ==
    IF gameP2.kind = "quantum" THEN [pc |-> "Executing", err |-> "none"]
    ELSE IF frag.num_clbits = 0 THEN [pc |-> "Failed", err |-> "UnboundLocalError"]
    ELSE [pc |-> "Prompting", err |-> "none"]

\* Game.play from its start to the first wait of the guesser: read length,
\* self.p1.setCode(length), encode self.p1.getCode(), attempts = 1, call
\* self.p2.guess(code)
PlayBegin(len) ==
    /\ pc = "AwaitingSecret"
    /\ length' = len
    /\ \E r \in setCode(gameP1, len) :
         IF r.ok
         THEN /\ setterCode' = [setterCode EXCEPT ![gameP1] = r.val]
              /\ encCode' = r.val
              /\ fragment' = encode(r.val)
              /\ attempts' = 1
              /\ requested' = 1
              /\ pc' = CallGuess(fragment').pc
              /\ err' = CallGuess(fragment').err
         ELSE /\ pc' = "Failed"
              /\ err' = r.val
              /\ UNCHANGED <<setterCode, encCode, fragment, attempts, requested>>
    /\ UNCHANGED <<p1, gameP1, gameP2, shellOut, guess, hint, correct,
                   humanGuess, reported, ret>>

\* Game.play once the guesser returned g: hint, correct = check(guess); on a
\* match the loop is left and the code of the global p1 is printed; else
\* the hint is printed, attempts goes up and guess is called again
GuessReturned(g) ==
    LET c == check(encCode, g, shellOut)
    IN  /\ guess' = g
        /\ IF ~c.ok
           THEN /\ pc' = "Failed"
                /\ err' = c.val
                /\ UNCHANGED <<hint, correct, attempts, requested, reported>>
           ELSE /\ hint' = c.val.hint
                /\ correct' = c.val.matched
                /\ IF c.val.matched
                   THEN /\ pc' = "Matched"
                        /\ reported' = setterCode[p1]
                        /\ UNCHANGED <<attempts, requested, err>>
                   ELSE /\ attempts' = NextAttempt(attempts)
                        /\ requested' = requested + 1
                        /\ pc' = CallGuess(fragment).pc
                        /\ err' = CallGuess(fragment).err
                        /\ UNCHANGED reported
        /\ UNCHANGED <<setterCode, p1, gameP1, gameP2, shellOut, encCode,
                       fragment, length, ret>>

\* the simulator answers QuantumGuesser.guess
ExecuteReturns ==
    /\ pc = "Executing"
    /\ attempts <= MaxAttempts
    /\ \E r \in QuantumGuesser_guess(fragment, gameP2.shots).results :
         IF r.ok
         THEN GuessReturned(r.val) /\ UNCHANGED humanGuess
         ELSE /\ pc' = "Failed"
              /\ err' = r.val
              /\ UNCHANGED <<setterCode, p1, gameP1, gameP2, shellOut, encCode,
                             fragment, length, attempts, requested, guess, hint,
                             correct, humanGuess, reported, ret>>

\* something is typed at HumanGuesser's prompt: a string of another length
\* is asked for again, one of the right length is returned
HumanPrompt(typed) ==
    /\ pc = "Prompting"
    /\ attempts <= MaxAttempts
    /\ humanGuess' = typed
    /\ IF Len(typed) # fragment.num_clbits
       THEN UNCHANGED <<setterCode, p1, gameP1, gameP2, shellOut, encCode,
                        fragment, pc, length, attempts, requested, guess, hint,
                        correct, reported, err, ret>>
       ELSE GuessReturned(typed)

Next ==
    \/ \E len \in 0..MaxLen : PlayBegin(len)
    \/ ExecuteReturns
    \/ \E typed \in GuessInputs : HumanPrompt(typed)

Spec == Init /\ [][Next]_vars

\* ------------------------------------- direct calls on encoder and guesser
\* encoder.encode(code) on a secret typed into a cell
EncodeCall(code) ==
    /\ encCode' = code
    /\ fragment' = encode(code)
    /\ ret' = [op |-> "encode", arg |-> code, sim |-> FALSE, res |-> Ok(<<>>)]
    /\ UNCHANGED <<gameVars, shellOut>>

\* encoder.check(input): self.code is only read
CheckCall(input) ==
    /\ ret' = [op |-> "check", arg |-> input, sim |-> FALSE,
               res |-> check(encCode, input, shellOut)]
    /\ UNCHANGED <<gameVars, shellOut, encCode, fragment>>

\* QuantumGuesser(backend, shots).guess(code) on the circuit just encoded
GuessCall(shots) ==
    /\ ret.op = "encode"
    /\ LET g == QuantumGuesser_guess(fragment, shots)
       IN  \E r \in g.results :
               ret' = [op |-> "guess", arg |-> shots, sim |-> g.sim, res |-> r]
    /\ UNCHANGED <<gameVars, shellOut, encCode, fragment>>

UnitInit ==
    /\ Init
    /\ p1 = 1
    /\ gameP1 = 1
    /\ gameP2 = [kind |-> "human", shots |-> 1]

UnitNext ==
    \/ \E code \in BitStringsUpTo(MaxCodeLen) : EncodeCall(code)
    \/ \E input \in BitStringsUpTo(MaxCodeLen + 1) : CheckCall(input)
    \/ \E shots \in 0..MaxShots : GuessCall(shots)

SpecUnit == UnitInit /\ [][UnitNext]_vars

\* the solver on its own: a secret of bits is encoded and then guessed
RecoverNext ==
    \/ \E code \in BitStringsUpTo(MaxSecretLen) \ {<<>>} : EncodeCall(code)
    \/ \E shots \in 1..MaxShots : GuessCall(shots)

SpecRecover == UnitInit /\ [][RecoverNext]_vars

\* ------------------------------------------- claims on the direct calls
\* the number of positions where guess and secret are both '1'
Overlap(code, input) ==
    Cardinality({i \in 1..Len(code) : i <= Len(input) /\ code[i] = "1" /\ input[i] = "1"})

\* C1: on the noiseless simulator, for a secret S of bits of length >= 1 and
\* any shot count >= 1, every value guess(encode(S)) can return is S itself,
\* in S's bit order.
C1_GuessReturnsSecret ==
    (ret.op = "guess" /\ ret.arg >= 1 /\ Len(encCode) >= 1)
        => (ret.res.ok /\ ret.res.val = encCode)

C1_Witness ==
    /\ ret.op = "guess" /\ ret.arg > 1
    /\ Len(encCode) >= 5 /\ encCode[1] = "1" /\ encCode[Len(encCode)] = "0"
    /\ ret.res.ok /\ ret.res.val = encCode

\* C2: for a guess as long as the secret, check's second component is true
\* exactly when the guess equals the secret position by position.
C2_MatchedIffEqual ==
    (ret.op = "check" /\ Len(ret.arg) = Len(encCode))
        => /\ ret.res.ok
           /\ ret.res.val.matched <=> (\A i \in 1..Len(encCode) : ret.arg[i] = encCode[i])

C2_Witness ==
    /\ ret.op = "check" /\ Len(ret.arg) = Len(encCode) /\ Len(encCode) >= 2
    /\ encCode[1] # encCode[Len(encCode)]
    /\ ret.res.ok /\ ret.res.val.matched

\* C3 (as claimed): for a guess as long as the secret, check's hint is true
\* exactly when the number of positions where both are '1' is odd.
C3_HintIsOverlapParity ==
    (ret.op = "check" /\ Len(ret.arg) = Len(encCode))
        => /\ ret.res.ok
           /\ ret.res.val.hint <=> (Overlap(encCode, ret.arg) % 2 = 1)

\* C7 (as claimed): check fails with LengthMismatchError whenever the guess
\* is not as long as the secret.
C7_LengthMismatchError ==
    (ret.op = "check" /\ Len(ret.arg) # Len(encCode))
        => (~ret.res.ok /\ ret.res.val = "LengthMismatchError")

\* C7 (amended): check makes no length check.  For a guess of another
\* length it raises IndexError exactly when the secret has a '1' at a
\* position the guess does not have, and otherwise returns a pair whose
\* matched is false; it raises nothing else, and a check never changes the
\* stored secret.
C7_NoLengthCheck ==
    [][ret'.op = "check" =>
         /\ encCode' = encCode
         /\ Len(ret'.arg) # Len(encCode) =>
              IF \E i \in 1..Len(encCode) : encCode[i] = "1" /\ i > Len(ret'.arg)
              THEN ~ret'.res.ok /\ ret'.res.val = "IndexError"
              ELSE ret'.res.ok /\ ~ret'.res.val.matched]_vars

C7_Witness ==
    /\ ret.op = "check" /\ Len(ret.arg) > Len(encCode) /\ Len(encCode) >= 1
    /\ ret.res.ok /\ ~ret.res.val.matched

\* C8 (as claimed): with shots < 1 the guess fails with InvalidProgramError
\* and the simulator is not invoked.
C8_ShotsBelowOneRefused ==
    (ret.op = "guess" /\ ret.arg < 1)
        => (~ret.sim /\ ~ret.res.ok /\ ret.res.val = "InvalidProgramError")

\* C8 (amended): the solver checks no shot count: whatever shots is, below 1
\* included, guess builds its circuit and invokes the simulator with it, and
\* no InvalidProgramError is raised.
C8_NoShotCheck ==
    ret.op = "guess" => (ret.sim /\ (ret.res.ok \/ ret.res.val # "InvalidProgramError"))

C8_Witness == ret.op = "guess" /\ ret.arg < 1 /\ ret.sim

\* C10: applied twice to any assignment of its len(S)+1 positions, the
\* circuit encode(S) gives the assignment back.
C10_SelfInverse ==
    ret.op = "encode" =>
        \A k \in 0..(Pow2(fragment.num_qubits) - 1) :
            Run(fragment.data \o fragment.data, Basis(fragment.num_qubits, k))
                = Basis(fragment.num_qubits, k)

C10_Witness ==
    /\ ret.op = "encode" /\ Len(fragment.data) >= 2
    /\ Run(fragment.data, Basis(fragment.num_qubits, 1)) # Basis(fragment.num_qubits, 1)

\* the basis state of the classical input (x, a) of a circuit of encode:
\* x is written like a key, so its character j sits on qubit Len(x)-j, where
\* measure reads it back; a is the accumulator, the last qubit
InputState(x, a) == ParseKey(x) + a * Pow2(Len(x))

\* C11: encode(S) holds exactly one controlled NOT onto the accumulator for
\* each position of S that is '1', from that position's qubit, and nothing
\* else; on every classical input (x, a) it yields (x, a XOR p), p the
\* parity of the positions where S and x are both '1'; and any two of its
\* gates can be exchanged without changing the result.
C11_EncodeIsParityXor ==
    ret.op = "encode" =>
        LET L == Len(encCode)
            data == fragment.data
            ones == {j \in 1..L : encCode[j] = "1"}
            states == 0..(Pow2(L + 1) - 1)
        IN  /\ fragment.num_qubits = L + 1
            /\ Len(data) = Cardinality(ones)
            /\ \A j \in ones : \E g \in 1..Len(data) : data[g] = <<"cx", L - j, L>>
            /\ \A x \in BitStrings(L) : \A a \in 0..1 :
                 Run(data, Basis(L + 1, InputState(x, a)))
                     = Basis(L + 1, InputState(x, (a + Overlap(encCode, x)) % 2))
            /\ \A g, h \in 1..Len(data) : \A k \in states :
                 Run(<<data[g], data[h]>>, Basis(L + 1, k))
                     = Run(<<data[h], data[g]>>, Basis(L + 1, k))

C11_Witness ==
    /\ ret.op = "encode" /\ Len(encCode) = 3
    /\ encCode = <<"1", "1", "0">> /\ Len(fragment.data) = 2
    /\ Run(fragment.data, Basis(4, InputState(<<"1", "0", "0">>, 0)))
           = Basis(4, InputState(<<"1", "0", "0">>, 1))

\* ------------------------------------------------ claims on Game.play
Guessing == pc \in {"Executing", "Prompting"}

\* a step of play in which the guesser returned a guess and it was checked
CheckedStep ==
    /\ Guessing
    /\ pc = "Prompting" => Len(humanGuess') = fragment.num_clbits
    /\ pc' # "Failed"

\* C4 (as claimed): with the quantum solver (shots >= 1) guessing, for every
\* secret of length >= 1 the setter produced, the game is matched on
\* attempt 1: once play has set the code it is waiting for the first guess
\* or is matched, with attempts = 1.
C4_QuantumMatchesOnFirstAttempt ==
    (gameP2.kind = "quantum" /\ gameP2.shots >= 1 /\ attempts >= 1 /\ Len(encCode) >= 1)
        => /\ attempts = 1
           /\ pc \in {"Executing", "Matched"}
           /\ pc = "Matched" => correct

\* C5: attempts is 1 at the first call of guess and equals the number of
\* calls of guess throughout; it changes only by going up by one after a
\* check that returned matched = false, the game then staying in Guessing
\* whatever the count; and Matched is entered only from Guessing, with the
\* count as it was, after a check that returned matched = true on a guess
\* equal to the secret.
C5_AttemptCounter ==
    [][/\ attempts' = requested'
       /\ (pc = "AwaitingSecret" /\ requested' > 0) => attempts' = 1
       /\ (pc # "AwaitingSecret" /\ attempts' # attempts) =>
             /\ attempts' = attempts + 1
             /\ Guessing /\ Guessing'
             /\ ~correct' /\ guess' # encCode
       /\ (CheckedStep /\ ~correct') =>
             (attempts' = attempts + 1 /\ Guessing')
       /\ (CheckedStep /\ correct') =>
             (attempts' = attempts /\ pc' = "Matched")
       /\ (pc' = "Matched" /\ pc # "Matched") =>
             /\ Guessing
             /\ correct' /\ guess' = encCode
             /\ attempts' = attempts]_vars

C5_Witness ==
    /\ pc = "Matched" /\ attempts = 3 /\ requested = 3
    /\ gameP2.kind = "human" /\ guess = encCode /\ Len(encCode) = 2

\* C6 (as claimed): at Matched the string printed as the code is the secret
\* of the setter this Game was built with.
C6_ReportsSecretOfItsSetter ==
    pc = "Matched" => reported = setterCode[gameP1]

\* C9 (as claimed): once setCode(length) has returned, the setter's code has
\* exactly length characters, each '0' or '1'.
C9_CodeHasLengthAndBits ==
    attempts >= 1 =>
        /\ Len(setterCode[gameP1]) = length
        /\ IsBitString(setterCode[gameP1])

\* C12 (as claimed): for every secret length, 0 included, HumanGuesser.guess
\* never fails: it asks again while what was typed has another length than
\* the secret, and returns the first string typed whose length is the
\* secret's, so no guess of another length reaches check.
C12_HumanGuessReturnsFirstOfLength ==
    [][gameP2.kind = "human" =>
         /\ pc' = "Failed" => attempts' = 0
         /\ (pc = "Prompting" /\ Len(humanGuess') # Len(encCode)) =>
               (pc' = "Prompting" /\ guess' = guess /\ requested' = requested)
         /\ (pc = "Prompting" /\ Len(humanGuess') = Len(encCode)) =>
               /\ guess' = humanGuess'
               /\ pc' = "Matched" \/ requested' = requested + 1
         /\ (pc' = "Matched" \/ requested' >= 2) => Len(guess') = Len(encCode')]_vars

====
